---- MODULE Spec2Model ----
(***************************************************************************)
(* A model of the combined telemetry service of                           *)
(* src/Python_Prog/Single_Prog_ALL.py: the calibration and level          *)
(* monitors with the capture sessions they spawn, the shared Modbus       *)
(* clients, the Historian, and the SQL writer behind the bounded queue.   *)
(*                                                                         *)
(* Time is kept by timers: Tick lets one unit of time pass, counts every  *)
(* running delay down and every age up.  A thread that sleeps without     *)
(* looking at anything (time.sleep(n)) is a thread whose next step may    *)
(* happen at any later moment.                                            *)
(***************************************************************************)
EXTENDS Integers, Sequences, FiniteSets, TLC

\* ------------------------------------------------------------------ bounds
\* capture sessions a CalMonitor may start within one behaviour
MaxCalSessions == 2
\* capture sessions a LevelMonitor may start within one behaviour
MaxLvlSessions == 2
\* queue.Queue(maxsize=50000), scaled down
QueueMax == 1
\* the batch cap of SQLWriter.run (300), scaled down
BatchCap == 2
\* sampling ticks the Historian may start within one behaviour
MaxTicks == 3
\* times the sink may fail within one behaviour
MaxFaults == 1
\* unexpected (non-pyodbc) exceptions cur.execute may raise in one behaviour
MaxGlitches == 1
\* threads that read through one SharedModbus endpoint
NumReaders == 2
\* the reconnect cool-down of SharedModbus._ensure (1.5 s) in time units
Cooldown == 2
\* the freshness window of RANGE_CACHE (ttl_s = 5) in time units
Ttl == 1

\* ---------------------------------------------------------- configuration
\* CAL_TRIG_AN1, cut to two of its trigger addresses; the delay is the
\* stabilization delay in time units, capture the number of captured tags
CalAddrSeq == <<1201, 1202>>
CalAddrs == {CalAddrSeq[i] : i \in 1..Len(CalAddrSeq)}
CalDelay(addr) == IF addr = 1201 THEN 2 ELSE 1
CalTags(addr) == IF addr = 1201 THEN 2 ELSE 1

\* LEVEL_DI, cut to two of its level triggers, in the order
\* LevelMonitor.run polls them
LevelKeySeq == <<"LOW", "MID">>
LevelKeys == {LevelKeySeq[i] : i \in 1..Len(LevelKeySeq)}
\* LEVEL_DELAYS holds three delays: one sample read after each
LevelReads == 3

\* the calibration trigger bits Historian._is_calibration reads, in its
\* order (cut to two), and the mode each stands for
HistCalSeq == <<1201, 1202>>
CalName(addr) == IF addr = 1201 THEN "N2O ZERO" ELSE "N2O SPAN"
LevelName(key) == IF key = "LOW" THEN "LOW LEVEL" ELSE "MID LEVEL"
\* val_count of the Historian (AN2-HIST)
ValCount == 2
FLOW_STOP_THRESHOLD == 100
\* None, where the code expects a number
NoVal == -1
\* the channel values and the minimum bounds a read may return
Vals == {5, 10}
Mins == {NoVal, 10}
Flows == {NoVal, 0, 100}

VARIABLES
  \* the environment
  trig,          \* level of each calibration trigger bit on the status device
  lvl,           \* level of each diagnostic level trigger bit
  stop_event,    \* the shutdown Event of main
  \* CalMonitor and its CalWorker threads
  cal_last,      \* CalMonitor.last
  cal_workers,   \* CalMonitor.workers: address -> session number, 0 for none
  cal_sess,      \* every CalWorker thread started so far
  cal_idx,       \* position of CalMonitor.run in its for loop, 0 when sleeping
  \* LevelMonitor and its level_capture_worker threads
  lvl_last,      \* LevelMonitor.last
  lvl_sess,      \* every level_capture_worker thread started so far
  lvl_idx,       \* position of LevelMonitor.run in its for loop
  \* the persistence queue
  sql_q,         \* queue.Queue(maxsize): the requests waiting, oldest first
  \* one SharedModbus endpoint and the threads reading through it
  dev_up,        \* whether the device answers
  mb_lock,       \* SharedModbus.lock, an RLock: owner (0: free) and count
  mb_client,     \* SharedModbus.client: "none", or "obj" with .connected
  mb_connected,  \* client.connected
  mb_fail_age,   \* time since SharedModbus.last_fail, up to Cooldown
  mb_conn_age,   \* history: time since a connect attempt last failed, up to
                 \* Cooldown
  rd,            \* per reading thread: pc, kind of read, result, elapsed time
  \* SQLWriter and the sink
  w_pc,          \* position of SQLWriter.run
  conn,          \* SQLWriter.conn: "none", "open", or "broken" by a sink fault
  batch,         \* the local batch of SQLWriter.run
  w_x,           \* index in batch of the item cur.execute runs next
  txn,           \* requests executed on conn and not yet committed
  commits,       \* history: the requests each conn.commit() made durable
  batches,       \* history: every batch drained from the queue
  sink_up,       \* whether the SQL server accepts connections and statements
  faults,        \* sink failures so far
  glitches,      \* unexpected exceptions so far
  \* Historian
  h_pc,          \* position of Historian.run
  last_good,     \* Historian.last_good
  h_in,          \* what the current tick read: bits, values, minimums, flow
  h_rec,         \* the record the current tick built (the locals of run)
  h_ticks,       \* ticks started
  h_puts,        \* records the current tick has enqueued
  h_fails,       \* history: the ticks in a row, up to the current one, whose
                 \* analyzer read failed
  \* RANGE_CACHE and the threads looking a key up
  rc_entry,      \* RangeCache.cache: per key the time since its ts, and (history)
                 \* the time since its value was read from the device
  rc,            \* per thread: pc, time since its now, time since its read of
                 \* the device, and what its last lookup returned
  \* evaluate
  ev,            \* the last call of evaluate: its arguments, what its lookups
                 \* in RANGE_CACHE returned, its result, and (history) the
                 \* result of the call before with the same arguments
  \* decode_float
  df,            \* a float laid out in two registers, and the last call of
                 \* decode_float on them
  \* history of CalMonitor
  cal_edge,      \* per trigger the time since CalMonitor last observed it
                 \* rising, up to its stabilization delay
  \* history of the CalWorker threads
  cal_exc        \* the CalWorker threads in whose capture tick an exception
                 \* was raised

vars == <<trig, lvl, stop_event, cal_last, cal_workers, cal_sess, cal_idx,
          lvl_last, lvl_sess, lvl_idx, sql_q,
          dev_up, mb_lock, mb_client, mb_connected, mb_fail_age, mb_conn_age,
          rd,
          w_pc, conn, batch, w_x, txn, commits, batches, sink_up, faults,
          glitches, h_pc, last_good, h_in, h_rec, h_ticks, h_puts, h_fails,
          rc_entry, rc, ev, df, cal_edge, cal_exc>>

envVars == <<trig, lvl, stop_event>>
calVars == <<cal_last, cal_workers, cal_sess, cal_idx>>
lvlVars == <<lvl_last, lvl_sess, lvl_idx>>
qVars == <<sql_q>>
mbVars == <<dev_up, mb_lock, mb_client, mb_connected, mb_fail_age,
            mb_conn_age, rd>>
sqlVars == <<w_pc, conn, batch, w_x, txn, commits, batches, sink_up, faults,
             glitches>>
histVars == <<h_pc, last_good, h_in, h_rec, h_ticks, h_puts, h_fails>>
rcVars == <<rc_entry, rc>>
\* what only the specification made for it changes
ownVars == <<ev, df, cal_edge, cal_exc>>

\* ------------------------------------------------------------ the queue
\* (mutant) put never waits
QueueHasRoom_Always(q) == TRUE

\* queue.Queue.put(item) with block=True: returns once the queue has room
QueueHasRoom(q) == Len(q) < QueueMax

\* a request {"sql": ..., "params": ...}: the producer (src), its session or
\* tick (s) and which of its records this is (what: the tag of a calibration
\* sample, the place of a level record in its session)
Request(src, s, what) == [src |-> src, s |-> s, what |-> what]

\* sql_q.put(item)
QPut(item) ==
  /\ QueueHasRoom(sql_q)
  /\ sql_q' = Append(sql_q, item)

\* ------------------------------------------------------ the status device
\* read_bit_status(addr): the level read, or None ("N") when the read on
\* the status endpoint fails
BitOf(level) == IF level THEN "T" ELSE "F"
ReadBitStatus(level) == {BitOf(level), "N"}

\* ----------------------------------------------------------- CalMonitor
\* Thread.is_alive() of CalWorker number w: started, run() not yet returned
CalAlive(w) == cal_sess[w].pc # "done"

\* (mutant) a CalWorker is started whenever the bit reads true
CalStarts_LevelTriggered(st, last, w) ==
  /\ st = "T"
  /\ (w = 0 \/ ~CalAlive(w))

\* (mutant) a rising edge starts a CalWorker whether or not one is alive
CalStarts_NoAliveCheck(st, last, w) ==
  /\ st = "T"
  /\ ~last

\* the guard of CalMonitor.run that decides to start a CalWorker
CalStarts(st, last, w) ==
  /\ st = "T"
  /\ ~last
  /\ (w = 0 \/ ~CalAlive(w))

\* CalWorker.__init__ and the first lines of run: end = time.time() + delay
NewCalWorker(addr) ==
  [addr |-> addr, pc |-> "wait", rem |-> CalDelay(addr), k |-> 0]

\* while not self.stop_event.is_set(): enter the for loop, or leave run
CalMonitorLoop ==
  /\ cal_idx = 0
  /\ cal_idx' = IF stop_event THEN -1 ELSE 1
  /\ UNCHANGED <<cal_last, cal_workers, cal_sess>>

\* one iteration of the for loop of CalMonitor.run
CalMonitorPoll ==
  /\ cal_idx \in 1..Len(CalAddrSeq)
  /\ LET addr == CalAddrSeq[cal_idx] IN
     \E st \in ReadBitStatus(trig[addr]) :
       /\ IF st = "N"
            THEN UNCHANGED <<cal_last, cal_workers, cal_sess>>
            ELSE /\ IF CalStarts(st, cal_last[addr], cal_workers[addr])
                      THEN /\ Len(cal_sess) < MaxCalSessions
                           /\ cal_sess' = Append(cal_sess, NewCalWorker(addr))
                           /\ cal_workers' =
                                [cal_workers EXCEPT ![addr] = Len(cal_sess) + 1]
                      ELSE UNCHANGED <<cal_workers, cal_sess>>
                 /\ cal_last' = [cal_last EXCEPT ![addr] = (st = "T")]
       /\ cal_idx' = IF cal_idx = Len(CalAddrSeq) THEN 0 ELSE cal_idx + 1

\* ------------------------------------------------------------ CalWorker
\* the stabilization loop ends: the delay is over or shutdown is requested
CalWorkerWait(s) ==
  /\ cal_sess[s].pc = "wait"
  /\ cal_sess[s].rem = 0 \/ stop_event
  /\ cal_sess' = [cal_sess EXCEPT ![s].pc = "poll"]
  /\ UNCHANGED <<cal_last, cal_workers, cal_idx>>

\* (mutant) only a bit read as False ends the session
CalAfterPoll_NoneGoesOn(active) ==
  IF active = "F" THEN "done" ELSE "capture"

\* if not active: break -- a bit read as False and a failed read (None)
\* both leave the while loop; otherwise the for loop over the tags begins
CalAfterPoll(active) ==
  IF active = "T" THEN "capture" ELSE "done"

\* while not stop: active = read_bit_status(trig_addr); if not active: break
CalWorkerPoll(s) ==
  /\ cal_sess[s].pc = "poll"
  /\ IF stop_event
       THEN cal_sess' = [cal_sess EXCEPT ![s].pc = "done"]
       ELSE \E active \in ReadBitStatus(trig[cal_sess[s].addr]) :
              cal_sess' = [cal_sess EXCEPT
                 ![s].pc = CalAfterPoll(active),
                 ![s].k = IF CalAfterPoll(active) = "capture" THEN 1 ELSE @]
  /\ UNCHANGED <<cal_last, cal_workers, cal_idx>>

\* for tag in tags: val = read_measured(...); if val is None: continue;
\* evaluate(...); self.sql_q.put(...); after the last tag
\* time.sleep(CAPTURE_INTERVAL_S) and the next turn of the while loop
CalWorkerCapture(s) ==
  /\ cal_sess[s].pc = "capture"
  /\ IF cal_sess[s].k > CalTags(cal_sess[s].addr)
       THEN /\ cal_sess' = [cal_sess EXCEPT ![s].pc = "poll"]
            /\ UNCHANGED qVars
       ELSE \E ok \in BOOLEAN :
              IF ok
                THEN /\ QPut(Request("cal", s, cal_sess[s].k))
                     /\ cal_sess' = [cal_sess EXCEPT ![s].k = @ + 1]
                ELSE /\ cal_sess' = [cal_sess EXCEPT ![s].k = @ + 1]
                     /\ UNCHANGED qVars
  /\ UNCHANGED <<cal_last, cal_workers, cal_idx>>

\* --------------------------------------------------------- LevelMonitor
\* Thread.is_alive() of level_capture_worker number w
LvlAlive(w) == lvl_sess[w].pc # "done"

\* the guard of LevelMonitor.run that decides to start a capture thread
LvlStarts(st, last) ==
  /\ st = "T"
  /\ ~last

\* threading.Thread(target=level_capture_worker, ...).start()
NewLevelWorker(key) ==
  [key |-> key, pc |-> "read", i |-> 1, nvals |-> 0, j |-> 0]

\* while not self.stop_event.is_set(): enter the for loop, or leave run
LevelMonitorLoop ==
  /\ lvl_idx = 0
  /\ lvl_idx' = IF stop_event THEN -1 ELSE 1
  /\ UNCHANGED <<lvl_last, lvl_sess>>

\* one iteration of the for loop of LevelMonitor.run
LevelMonitorPoll ==
  /\ lvl_idx \in 1..Len(LevelKeySeq)
  /\ LET key == LevelKeySeq[lvl_idx] IN
     \E st \in ReadBitStatus(lvl[key]) :
       /\ IF st = "N"
            THEN UNCHANGED <<lvl_last, lvl_sess>>
            ELSE /\ IF LvlStarts(st, lvl_last[key])
                      THEN /\ Len(lvl_sess) < MaxLvlSessions
                           /\ lvl_sess' = Append(lvl_sess, NewLevelWorker(key))
                      ELSE UNCHANGED lvl_sess
                 /\ lvl_last' = [lvl_last EXCEPT ![key] = (st = "T")]
       /\ lvl_idx' = IF lvl_idx = Len(LevelKeySeq) THEN 0 ELSE lvl_idx + 1

\* -------------------------------------------------- level_capture_worker
\* the step after read number i: the next read, or the average
LvlAfterRead(i) == IF i = LevelReads THEN "avg" ELSE "read"

\* time.sleep(delay_s); v = read_input_float(mb_an, 0, "ABCD"); if v is not
\* None: vals.append(float(v)); sql_put_level(..., f"Val {i}", float(v))
LevelWorkerRead(s) ==
  /\ lvl_sess[s].pc = "read"
  /\ \E ok \in BOOLEAN :
       IF ok
         THEN /\ QPut(Request("level", s, lvl_sess[s].i))
              /\ lvl_sess' = [lvl_sess EXCEPT
                    ![s].pc = LvlAfterRead(lvl_sess[s].i),
                    ![s].i = @ + 1, ![s].nvals = @ + 1]
         ELSE /\ lvl_sess' = [lvl_sess EXCEPT
                    ![s].pc = LvlAfterRead(lvl_sess[s].i), ![s].i = @ + 1]
              /\ UNCHANGED qVars
  /\ UNCHANGED <<lvl_last, lvl_idx>>

\* if not vals: return; else the "Avg" record
LevelWorkerAvg(s) ==
  /\ lvl_sess[s].pc = "avg"
  /\ IF lvl_sess[s].nvals = 0
       THEN /\ lvl_sess' = [lvl_sess EXCEPT ![s].pc = "done"]
            /\ UNCHANGED qVars
       ELSE /\ QPut(Request("level", s, LevelReads + 1))
            /\ lvl_sess' = [lvl_sess EXCEPT ![s].pc = "tail", ![s].j = 1]
  /\ UNCHANGED <<lvl_last, lvl_idx>>

\* the "Actual", "Error" and "% Error" records, in this order
LevelWorkerTail(s) ==
  /\ lvl_sess[s].pc = "tail"
  /\ QPut(Request("level", s, LevelReads + 1 + lvl_sess[s].j))
  /\ lvl_sess' = [lvl_sess EXCEPT
        ![s].pc = IF lvl_sess[s].j = 3 THEN "done" ELSE "tail",
        ![s].j = @ + 1]
  /\ UNCHANGED <<lvl_last, lvl_idx>>

\* --------------------------------------------------------- SharedModbus
Readers == 1..NumReaders
ReadKinds == {"discrete", "input", "holding"}
Min(a, b) == IF a < b THEN a ELSE b

\* (mutant) the reads do not exclude one another
LockFree_NoLock(lock, t) == TRUE

\* RLock.acquire by thread t succeeds: the lock is free or t owns it
LockFree(lock, t) == lock.owner = 0 \/ lock.owner = t
LockAcquire(lock, t) == [owner |-> t, count |-> lock.count + 1]
LockRelease(lock) ==
  IF lock.count = 1 THEN [owner |-> 0, count |-> 0]
                    ELSE [lock EXCEPT !.count = @ - 1]

\* the thread is inside the with self.lock block of a read
MbInRead(t) == rd[t].pc \in {"ensure", "connect", "io"}

\* (mutant) the lock is still held after the return
MbReturn_LockKept(t, res) ==
  /\ rd' = [rd EXCEPT ![t].pc = "idle", ![t].res = res, ![t].el = 0]
  /\ mb_lock' = mb_lock

\* return from a read: the result, and the with block releases the lock
MbReturn(t, res) ==
  /\ rd' = [rd EXCEPT ![t].pc = "idle", ![t].res = res, ![t].el = 0]
  /\ mb_lock' = LockRelease(mb_lock)

\* a thread calls read_discrete, read_input_regs or read_holding_regs
MbRead(t) ==
  /\ rd[t].pc = "idle"
  /\ \E kind \in ReadKinds :
       rd' = [rd EXCEPT ![t].pc = "lock", ![t].kind = kind, ![t].res = "none"]
  /\ UNCHANGED <<dev_up, mb_lock, mb_client, mb_connected, mb_fail_age,
                 mb_conn_age>>

\* with self.lock: the calling thread gets the lock
MbAcquire(t) ==
  /\ rd[t].pc = "lock"
  /\ LockFree(mb_lock, t)
  /\ mb_lock' = LockAcquire(mb_lock, t)
  /\ rd' = [rd EXCEPT ![t].pc = "ensure"]
  /\ UNCHANGED <<dev_up, mb_client, mb_connected, mb_fail_age, mb_conn_age>>

\* _ensure up to the call of _connect: connected already, throttled, or
\* now = time.time() is taken and the connect attempt starts
MbEnsure(t) ==
  /\ rd[t].pc = "ensure"
  /\ IF mb_client = "obj" /\ mb_connected
       THEN /\ rd' = [rd EXCEPT ![t].pc = "io"]
            /\ UNCHANGED <<mb_lock, mb_client, mb_connected>>
       ELSE IF mb_fail_age < Cooldown
         THEN /\ MbReturn(t, "N")
              /\ UNCHANGED <<mb_client, mb_connected>>
         ELSE /\ rd' = [rd EXCEPT ![t].pc = "connect", ![t].el = 0]
              /\ mb_client' = "obj"
              /\ mb_connected' = FALSE
              /\ UNCHANGED mb_lock
  /\ UNCHANGED <<dev_up, mb_fail_age, mb_conn_age>>

\* _connect returns: ok = self.client.connect(); if not ok: last_fail = now
MbConnect(t) ==
  /\ rd[t].pc = "connect"
  /\ IF dev_up
       THEN /\ mb_connected' = TRUE
            /\ rd' = [rd EXCEPT ![t].pc = "io", ![t].el = 0]
            /\ UNCHANGED <<mb_lock, mb_fail_age, mb_conn_age>>
       ELSE /\ mb_connected' = FALSE
            /\ mb_fail_age' = rd[t].el
            /\ mb_conn_age' = 0
            /\ MbReturn(t, "N")
  /\ UNCHANGED <<dev_up, mb_client>>

\* the transport read: the values, an error response (r.isError()), or an
\* exception, after which last_fail = time.time() and the library may or
\* may not have dropped the connection
MbIo(t) ==
  /\ rd[t].pc = "io"
  /\ \/ /\ dev_up
        /\ MbReturn(t, "ok")
        /\ UNCHANGED <<mb_connected, mb_fail_age>>
     \/ /\ MbReturn(t, "N")
        /\ UNCHANGED <<mb_connected, mb_fail_age>>
     \/ /\ ~dev_up
        /\ MbReturn(t, "N")
        /\ mb_fail_age' = 0
        /\ \E c \in BOOLEAN : mb_connected' = c
  /\ UNCHANGED <<dev_up, mb_client, mb_conn_age>>

\* the device goes away or comes back
DevChange ==
  /\ dev_up' = ~dev_up
  /\ UNCHANGED <<mb_lock, mb_client, mb_connected, mb_fail_age, mb_conn_age,
                 rd>>

\* ------------------------------------------------------------ Historian
\* Historian._is_calibration: the mode of the first trigger bit read active
\* and 1, or ("ANALYZER IDLE", 0); a failed read (None) counts as inactive
IsCalibration(bits) ==
  LET active == {i \in 1..Len(HistCalSeq) : bits[i] = "T"} IN
  IF active # {}
    THEN <<CalName(HistCalSeq[CHOOSE i \in active :
                                 \A j \in active : i <= j]), 1>>
    ELSE <<"ANALYZER IDLE", 0>>

\* Historian._level_mode: the name of the first level bit read active
LevelMode(lbits) ==
  LET active == {i \in 1..Len(LevelKeySeq) : lbits[i] = "T"} IN
  IF active # {}
    THEN LevelName(LevelKeySeq[CHOOSE i \in active :
                                  \A j \in active : i <= j])
    ELSE "LEVEL IDLE"

\* (mutant) a minimum that cannot be read makes the sample invalid
InvalidMinOnly_FailClosed(values, mins) ==
  \E idx \in 1..Len(values) : mins[idx] = NoVal \/ values[idx] < mins[idx]

\* Historian._invalid_min_only: some value is below its minimum; a minimum
\* that cannot be read (None) is skipped
InvalidMinOnly(values, mins) ==
  \E idx \in 1..Len(values) : mins[idx] # NoVal /\ values[idx] < mins[idx]

\* (mutant) a failed read of the flow is handed on as None
ReadFlow_KeepsNone(f) == f

\* read_flow: vals[0] if vals else 0.0
ReadFlow(f) == IF f = NoVal THEN 0 ELSE f

\* (mutant) a flow of exactly the threshold is a stopped plant
PlantStatus_Above(flow_val) ==
  IF flow_val > FLOW_STOP_THRESHOLD THEN "PLANT RUNNING" ELSE "PLANT STOP"

\* plant_status
PlantStatus(flow_val) ==
  IF flow_val >= FLOW_STOP_THRESHOLD THEN "PLANT RUNNING" ELSE "PLANT STOP"

\* (mutant) the minimums are not looked at
HistMode_NoValidation(cal, new_vals, mins) ==
  IF new_vals = <<>> THEN "ANALYZER OFFLINE" ELSE cal[1]

\* the analyzer mode of a tick: cal is the result of _is_calibration,
\* new_vals the result of read_block_input (<<>> for None)
HistMode(cal, new_vals, mins) ==
  IF new_vals = <<>> THEN "ANALYZER OFFLINE"
  ELSE IF cal[1] = "ANALYZER IDLE"
    THEN IF InvalidMinOnly(new_vals, mins) THEN "ANALYZER INVALID"
                                           ELSE "ANALYZER IDLE"
    ELSE cal[1]

\* is_cal of a tick
HistIsCal(cal, new_vals) == IF new_vals = <<>> THEN 0 ELSE cal[2]

\* (mutant) an offline tick writes zeros
HistVals_OfflineBlank(cal, new_vals, lg) ==
  IF new_vals = <<>> THEN [i \in 1..ValCount |-> 0]
  ELSE IF cal[1] = "ANALYZER IDLE" THEN new_vals ELSE lg

\* the values a tick writes: last_good when offline or calibrating
HistVals(cal, new_vals, lg) ==
  IF new_vals = <<>> THEN lg
  ELSE IF cal[1] = "ANALYZER IDLE" THEN new_vals ELSE lg

\* (mutant) the sample is adopted before it is validated
HistLastGood_Unvalidated(cal, new_vals, mins, lg) ==
  IF new_vals # <<>> /\ cal[1] = "ANALYZER IDLE" THEN new_vals ELSE lg

\* self.last_good after a tick
HistLastGood(cal, new_vals, mins, lg) ==
  IF /\ new_vals # <<>>
     /\ cal[1] = "ANALYZER IDLE"
     /\ ~InvalidMinOnly(new_vals, mins)
    THEN new_vals
    ELSE lg

\* (mutant) an offline tick goes to the sleep without a record
HistAfterBranch_SkipOffline(mode) ==
  IF mode = "ANALYZER OFFLINE" THEN "sleep" ELSE "put"

\* where run goes after the branch that set the mode: every branch falls
\* through to the one self.sql_q.put
HistAfterBranch(mode) == "put"

\* the body of one tick up to the put: the reads, the mode, last_good.
\* FlowReads, ValReads and MinReads are the results the reads may give,
\* BitFail whether a read of a status bit may fail
HistTick(FlowReads, BitFail, ValReads, MinReads) ==
  /\ h_pc = "tick"
  /\ IF stop_event
       THEN /\ h_pc' = "stopped"
            /\ UNCHANGED <<last_good, h_in, h_rec, h_ticks, h_puts, h_fails>>
       ELSE /\ h_ticks < MaxTicks
            /\ \E f \in FlowReads, new_vals \in ValReads, mins \in MinReads,
                  bfail \in [1..Len(HistCalSeq) -> BitFail],
                  lfail \in [1..Len(LevelKeySeq) -> BitFail] :
                 LET bits == [i \in 1..Len(HistCalSeq) |->
                        IF bfail[i] THEN "N" ELSE BitOf(trig[HistCalSeq[i]])]
                     lbits == [i \in 1..Len(LevelKeySeq) |->
                        IF lfail[i] THEN "N" ELSE BitOf(lvl[LevelKeySeq[i]])]
                     cal == IsCalibration(bits)
                     mode == HistMode(cal, new_vals, mins)
                 IN
                 /\ h_in' = [bits |-> bits, vals |-> new_vals, mins |-> mins,
                             flow |-> f]
                 /\ last_good' = HistLastGood(cal, new_vals, mins, last_good)
                 /\ h_rec' = [vals |-> HistVals(cal, new_vals, last_good),
                              flow |-> ReadFlow(f),
                              mode |-> mode,
                              level |-> LevelMode(lbits),
                              is_cal |-> HistIsCal(cal, new_vals),
                              pstat |-> PlantStatus(ReadFlow(f))]
                 /\ h_pc' = HistAfterBranch(mode)
                 /\ h_fails' = IF new_vals = <<>> THEN h_fails + 1 ELSE 0
            /\ h_ticks' = h_ticks + 1
            /\ h_puts' = 0

\* self.sql_q.put({"sql": sql, "params": params})
HistPut ==
  /\ h_pc = "put"
  /\ QPut(Request("hist", h_ticks, 0))
  /\ h_pc' = "sleep"
  /\ h_puts' = h_puts + 1
  /\ UNCHANGED <<last_good, h_in, h_rec, h_ticks, h_fails>>

\* what the locals of run hold before the first tick has assigned them
NoInput ==
  [bits |-> [i \in 1..Len(HistCalSeq) |-> "F"], vals |-> <<>>,
   mins |-> [i \in 1..ValCount |-> NoVal], flow |-> NoVal]
NoRecord ==
  [vals |-> [i \in 1..ValCount |-> 0], flow |-> 0, mode |-> "ANALYZER IDLE",
   level |-> "LEVEL IDLE", is_cal |-> 0, pstat |-> "PLANT STOP"]

\* the sleep of HIST_INTERVAL_S in slices ends: the interval is over, or
\* stop_event is set. The locals of the tick are dead from here on: the
\* next tick assigns each of them before it reads it
HistSleep ==
  /\ h_pc = "sleep"
  /\ h_pc' = "tick"
  /\ h_in' = NoInput
  /\ h_rec' = NoRecord
  /\ UNCHANGED <<last_good, h_ticks, h_puts, h_fails>>

\* ------------------------------------------------------------ SQLWriter
\* (mutant) the handler keeps the failed connection
ConnAfterSinkError_Kept(c) == c

\* self.conn after the handler of pyodbc.Error: closed and set to None
ConnAfterSinkError(c) == "none"

\* except pyodbc.Error: close the connection (its open transaction is
\* rolled back), self.conn = None, time.sleep(5)
SinkErrorHandler ==
  /\ conn' = ConnAfterSinkError(conn)
  /\ txn' = <<>>
  /\ w_pc' = "backoff"

\* (mutant) the batch of the last turn is kept
FreshBatch_Kept(b) == b

\* batch = []
FreshBatch(b) == <<>>

\* (mutant) the loop never connects before its get
NeedsConnect_Never(c) == FALSE

\* if self.conn is None
NeedsConnect(c) == c = "none"

\* while not stop: if self.conn is None: self.conn = sql_connect(); after
\* the loop the connection is closed
WriterLoop ==
  /\ w_pc = "top"
  /\ IF stop_event
       THEN /\ w_pc' = "stopped"
            /\ conn' = "none"
            /\ txn' = <<>>
       ELSE IF NeedsConnect(conn)
         THEN IF sink_up
                THEN /\ conn' = "open"
                     /\ w_pc' = "get"
                     /\ UNCHANGED txn
                ELSE SinkErrorHandler
         ELSE /\ w_pc' = "get"
              /\ UNCHANGED <<conn, txn>>
  /\ UNCHANGED <<batch, w_x, commits, batches, sink_up, faults, glitches>>
  /\ UNCHANGED qVars

\* batch = []; item = self.q.get(timeout=1); batch.append(item); on
\* queue.Empty: continue
WriterGet ==
  /\ w_pc = "get"
  /\ IF sql_q = <<>>
       THEN /\ w_pc' = "top"
            /\ batch' = FreshBatch(batch)
            /\ UNCHANGED qVars
       ELSE /\ batch' = Append(FreshBatch(batch), Head(sql_q))
            /\ sql_q' = Tail(sql_q)
            /\ w_pc' = "drain"
  /\ UNCHANGED <<conn, w_x, txn, commits, batches, sink_up, faults, glitches>>

\* while len(batch) < 300: batch.append(self.q.get_nowait()); on
\* queue.Empty: break; then cur = self.conn.cursor()
WriterDrain ==
  /\ w_pc = "drain"
  /\ IF Len(batch) < BatchCap /\ sql_q # <<>>
       THEN /\ batch' = Append(batch, Head(sql_q))
            /\ sql_q' = Tail(sql_q)
            /\ UNCHANGED <<w_pc, w_x, batches>>
       ELSE /\ w_pc' = "exec"
            /\ w_x' = 1
            /\ batches' = Append(batches, batch)
            /\ UNCHANGED <<batch, sql_q>>
  /\ UNCHANGED <<conn, txn, commits, sink_up, faults, glitches>>

\* cur.execute(it["sql"], it["params"]) of one item: done, pyodbc.Error, or
\* another exception (logged, time.sleep(1), the connection kept as it is)
WriterExecute ==
  /\ w_pc = "exec"
  /\ \/ /\ conn = "open"
        /\ txn' = Append(txn, batch[w_x])
        /\ w_x' = w_x + 1
        /\ w_pc' = IF w_x = Len(batch) THEN "commit" ELSE "exec"
        /\ UNCHANGED <<conn, glitches>>
     \/ /\ conn # "open"
        /\ SinkErrorHandler
        /\ UNCHANGED <<w_x, glitches>>
     \/ /\ glitches < MaxGlitches
        /\ glitches' = glitches + 1
        /\ w_pc' = "pause"
        /\ UNCHANGED <<conn, txn, w_x>>
  /\ UNCHANGED <<batch, commits, batches, sink_up, faults>>
  /\ UNCHANGED qVars

\* self.conn.commit(): everything executed on the connection since its last
\* commit becomes durable, or pyodbc.Error
WriterCommit ==
  /\ w_pc = "commit"
  /\ IF conn = "open"
       THEN /\ commits' = Append(commits, txn)
            /\ txn' = <<>>
            /\ w_pc' = "top"
            /\ UNCHANGED conn
       ELSE /\ SinkErrorHandler
            /\ UNCHANGED commits
  /\ UNCHANGED <<batch, w_x, batches, sink_up, faults, glitches>>
  /\ UNCHANGED qVars

\* time.sleep(5) of the pyodbc.Error handler, time.sleep(1) of the other
\* handler: the next turn of the while loop
WriterResume ==
  /\ w_pc \in {"backoff", "pause"}
  /\ w_pc' = "top"
  /\ UNCHANGED <<conn, batch, w_x, txn, commits, batches, sink_up, faults,
                 glitches>>
  /\ UNCHANGED qVars

\* the SQL server goes away: open connections break, and what they had
\* executed without committing is gone
SinkFail ==
  /\ sink_up
  /\ faults < MaxFaults
  /\ sink_up' = FALSE
  /\ faults' = faults + 1
  /\ conn' = IF conn = "open" THEN "broken" ELSE conn
  /\ txn' = <<>>
  /\ UNCHANGED <<w_pc, batch, w_x, commits, batches, glitches>>

\* the SQL server is back
SinkRecover ==
  /\ ~sink_up
  /\ sink_up' = TRUE
  /\ UNCHANGED <<w_pc, conn, batch, w_x, txn, commits, batches, faults,
                 glitches>>

\* ----------------------------------------------------------- RangeCache
\* one more unit of age; an age past the ttl is kept as Ttl + 1
Older(a) == Min(a + 1, Ttl + 1)

\* the keys looked up in self.cache: (address, order) of the expected and
\* the min reference of AN1_RANGE_MAP["N2O"], both read as "CDAB"
RcKeys == {124, 100}

\* a key is not in self.cache
NoEntry == [has |-> FALSE, ts_age |-> 0, val_age |-> 0]

\* a thread outside get_float_holding, with what its last call returned
\* (ret) and, for a value from the cache, how long before the call that
\* value had been read from the device (age)
RcIdle(ret, age) ==
  [pc |-> "idle", key |-> 0, el |-> 0, va |-> 0, ret |-> ret, age |-> age]

\* (mutant) an entry is returned whatever its age
RcFresh_Always(age) == TRUE

\* now - ts <= self.ttl
RcFresh(age) == age <= Ttl

\* (mutant) a failed read of the device removes the key's entry
RcAfterFail_Evicts(cache, key) == [cache EXCEPT ![key] = NoEntry]

\* if not regs or len(regs) < 2: return None -- self.cache is not touched
RcAfterFail(cache, key) == cache

\* now = time.time(); with self.lock: if the key has an entry within the
\* ttl, return its value; otherwise go on to the read of the device
RcLookup(t) ==
  /\ rc[t].pc = "idle"
  /\ \E key \in RcKeys :
       IF rc_entry[key].has /\ RcFresh(rc_entry[key].ts_age)
         THEN rc' = [rc EXCEPT ![t] = RcIdle("hit", rc_entry[key].val_age)]
         ELSE rc' = [rc EXCEPT ![t] =
                       [pc |-> "fetch", key |-> key, el |-> 0, va |-> 0,
                        ret |-> "none", age |-> 0]]
  /\ UNCHANGED rc_entry

\* regs = MB_RANGE.read_holding_regs(addr, 2); if not regs or len(regs) < 2:
\* return None; val = decode_float(...)
RcFetch(t) ==
  /\ rc[t].pc = "fetch"
  /\ \E ok \in BOOLEAN :
       /\ rc' = [rc EXCEPT ![t] =
                  IF ok THEN [@ EXCEPT !.pc = "store", !.va = 0]
                        ELSE RcIdle("N", 0)]
       /\ rc_entry' = IF ok THEN rc_entry
                            ELSE RcAfterFail(rc_entry, rc[t].key)

\* with self.lock: self.cache[key] = (now, val); return val -- now is the
\* time taken at the start of the call
RcStore(t) ==
  /\ rc[t].pc = "store"
  /\ rc_entry' = [rc_entry EXCEPT ![rc[t].key] =
                    [has |-> TRUE, ts_age |-> rc[t].el, val_age |-> rc[t].va]]
  /\ rc' = [rc EXCEPT ![t] = RcIdle("fetched", 0)]

\* ------------------------------------------------------------ evaluate
\* None, and a number that is there
None == <<>>
Some(x) == <<x>>

Abs(x) == IF x < 0 THEN 0 - x ELSE x

\* two tags of AN1_RANGE_MAP with the factor of their entries
EvTags == {"N2O", "NO"}
Factor(tag) == IF tag = "N2O" THEN 100 ELSE 101

\* the cal_name of the zero calibration and of one span calibration
EvCalNames == {"N2O ZERO", "N2O SPAN"}

\* measured values, and what read_holding_float_cached returns for a
\* reference register: None or a value; all values in tenths
Measured == {0 - 3, 0, 2, 10}
RefReads == {None} \cup {Some(x) : x \in {0, 2, 10}}

\* read_expected_min_max: the three lookups in RANGE_CACHE, in this order
\* (every exp_reg, min_reg and max_reg of the range maps is non-zero)
ReadExpectedMinMax(reads) ==
  [exp |-> reads[1], mn |-> reads[2], mx |-> reads[3]]

\* expected = 0.0; min_r = -0.2; max_r = 0.2
ZeroRefs == [exp |-> Some(0), mn |-> Some(0 - 2), mx |-> Some(2)]

\* (mutant) only a missing expected value is an error
EvalRefsMissing_ExpectedOnly(r) == r.exp = None

\* expected is None or min_r is None or max_r is None
EvalRefsMissing(r) == r.exp = None \/ r.mn = None \/ r.mx = None

\* (mutant) the limits themselves are out of control
InBand_Strict(mn, val, mx) == mn < val /\ val < mx

\* min_r <= val <= max_r
InBand(mn, val, mx) == mn <= val /\ val <= mx

\* (mutant) the quotient is taken whatever expected is; a denominator of
\* 0 stands for the ZeroDivisionError
EvalAccuracy_AlwaysDivides(val, expected, factor) ==
  <<Abs(val - expected) * factor, expected>>

\* accuracy = (abs(error) / expected * factor) if expected not in (None, 0)
\* else (abs(val) * factor), as the fraction <<numerator, denominator>>
EvalAccuracy(val, expected, factor) ==
  IF expected # 0
    THEN <<Abs(val - expected) * factor, expected>>
    ELSE <<Abs(val) * factor, 1>>

\* the result (None, None, None, "READ ERROR")
ReadError ==
  [expected |-> None, error |-> None, accuracy |-> None,
   status |-> "READ ERROR"]

\* evaluate from error = val - expected on: r.exp is a number here
EvalResult(val, r, factor) ==
  [expected |-> r.exp,
   error |-> Some(val - r.exp[1]),
   accuracy |-> EvalAccuracy(val, r.exp[1], factor),
   status |-> IF r.mn # None /\ r.mx # None /\ InBand(r.mn[1], val, r.mx[1])
                THEN "CAL OK" ELSE "OUT OF CONTROL"]

\* evaluate(tag, val, cal_name, range_map); reads is what the lookups of
\* read_expected_min_max return when evaluate makes them
Evaluate(tag, val, cal_name, reads) ==
  IF cal_name = "N2O ZERO"
    THEN EvalResult(val, ZeroRefs, Factor(tag))
    ELSE LET r == ReadExpectedMinMax(reads) IN
         IF EvalRefsMissing(r) THEN ReadError
                               ELSE EvalResult(val, r, Factor(tag))

\* the lookups a call of evaluate makes: none for "N2O ZERO", else three,
\* each returning what the cache or the range device gives at that time
EvalReads(cal_name) ==
  IF cal_name = "N2O ZERO" THEN {<<>>} ELSE [1..3 -> RefReads]

\* no call of evaluate yet, and no result
NoResult ==
  [expected |-> None, error |-> None, accuracy |-> None, status |-> "none"]
NoEval ==
  [n |-> 0, tag |-> "N2O", val |-> 0, cal_name |-> "N2O ZERO",
   reads |-> <<>>, out |-> NoResult, prev |-> NoResult]

\* CalWorker.run: expected, err, acc, status = evaluate(tag, val, cal_name,
\* self.range_map), for a sample just measured
EvalCall ==
  \E tag \in EvTags, val \in Measured, cal_name \in EvCalNames :
    \E reads \in EvalReads(cal_name) :
      ev' = [n |-> 1, tag |-> tag, val |-> val, cal_name |-> cal_name,
             reads |-> reads, out |-> Evaluate(tag, val, cal_name, reads),
             prev |-> NoResult]

\* evaluate is called once more with the arguments of the call before
EvalAgain ==
  /\ ev.n = 1
  /\ \E reads \in EvalReads(ev.cal_name) :
       ev' = [ev EXCEPT !.n = 2, !.reads = reads,
                !.out = Evaluate(ev.tag, ev.val, ev.cal_name, reads),
                !.prev = ev.out]

\* -------------------------------------------------------- decode_float
\* the bytes the floats of the model are made of: 0x00, 0x01, 0x7f, 0xa0
CodecBytes == {0, 1, 127, 160}

\* the orders a caller may name; "XYZW" is none of the four known ones
Orders == {"ABCD", "CDAB", "BADC", "DCBA", "XYZW"}
KnownOrders == {"ABCD", "CDAB", "BADC", "DCBA"}

\* struct.pack(">H", w): the two bytes of a register, high byte first
PackH(w) == <<w \div 256, w % 256>>

\* b[::-1] of two bytes
Reversed(b) == <<b[2], b[1]>>

\* struct.unpack(">HH", data): the two registers of four bytes
UnpackHH(data) == <<data[1] * 256 + data[2], data[3] * 256 + data[4]>>

\* four bytes read as one 32-bit pattern, first byte highest, kept as
\* its high and its low 16 bits
BitsOf(data) == <<data[1] * 256 + data[2], data[3] * 256 + data[4]>>

\* a float32 pattern that is a signalling NaN: exponent all ones, quiet
\* bit (bit 22) clear, rest of the mantissa not zero
IsSignallingNaN(bits) ==
  /\ (bits[1] \div 128) % 256 = 255
  /\ (bits[1] \div 64) % 2 = 0
  /\ (bits[1] % 64 # 0 \/ bits[2] # 0)

\* struct.unpack(">f", data)[0]: the Python float, named by the bits of its
\* float32 form; the widening to a double makes a signalling NaN quiet
UnpackF(data) ==
  LET bits == BitsOf(data) IN
  IF IsSignallingNaN(bits) THEN <<bits[1] + 64, bits[2]>> ELSE bits

\* struct.pack(">f", v) of a float that has a float32 form
PackF(v) ==
  <<v[1] \div 256, v[1] % 256, v[2] \div 256, v[2] % 256>>

\* values_write.float_to_registers
FloatToRegisters(v) == UnpackHH(PackF(v))

\* the two registers in which a device that keeps the low word first
\* ("CDAB") or the high word first ("ABCD") presents a float
RegistersFor(v, order) ==
  LET r == FloatToRegisters(v) IN
  IF order = "CDAB" THEN <<r[2], r[1]>> ELSE r

\* (mutant) "CDAB" is put together like "ABCD"
Arrange_NoSwap(b1, b2, order) ==
  CASE order = "BADC" -> Reversed(b1) \o Reversed(b2)
    [] order = "DCBA" -> Reversed(b2) \o Reversed(b1)
    [] OTHER -> b1 \o b2

\* decode_float: data, by the if/elif chain over order
Arrange(b1, b2, order) ==
  CASE order = "ABCD" -> b1 \o b2
    [] order = "CDAB" -> b2 \o b1
    [] order = "BADC" -> Reversed(b1) \o Reversed(b2)
    [] order = "DCBA" -> Reversed(b2) \o Reversed(b1)
    [] OTHER -> b1 \o b2

\* decode_float of Single_Prog_ALL.py
DecodeFloat(w1, w2, order) == UnpackF(Arrange(PackH(w1), PackH(w2), order))

\* the ValueError that decode_float of the two older programs raises
ValueError == <<0 - 1, 0 - 1>>

\* decode_float of combined_program.py: if order not in order_map: raise
DecodeFloat_combined(w1, w2, order) ==
  IF order \notin KnownOrders THEN ValueError
                               ELSE DecodeFloat(w1, w2, order)

\* decode_float of Analser_Tcp_IP_old.py: else: raise ValueError
DecodeFloat_old(w1, w2, order) ==
  IF order \in KnownOrders THEN DecodeFloat(w1, w2, order)
                           ELSE ValueError

\* no float in the registers yet
NoDecode ==
  [pc |-> "none", v |-> <<0, 0>>, worder |-> "ABCD", regs |-> <<0, 0>>,
   rorder |-> "ABCD", data |-> <<>>, out |-> <<0, 0>>,
   out_combined |-> <<0, 0>>, out_old |-> <<0, 0>>]

\* a device holds a float and presents it in two registers, high word
\* first or low word first
CodecWrite ==
  \E bytes \in [1..4 -> CodecBytes], order \in {"ABCD", "CDAB"} :
    LET v == UnpackF(bytes) IN
    df' = [NoDecode EXCEPT !.pc = "regs", !.v = v, !.worder = order,
                           !.regs = RegistersFor(v, order)]

\* the two registers are read and decoded with the order the caller names
CodecDecode ==
  /\ df.pc = "regs"
  /\ \E order \in Orders :
       df' = [df EXCEPT
                !.pc = "done", !.rorder = order,
                !.data = Arrange(PackH(df.regs[1]), PackH(df.regs[2]), order),
                !.out = DecodeFloat(df.regs[1], df.regs[2], order),
                !.out_combined =
                   DecodeFloat_combined(df.regs[1], df.regs[2], order),
                !.out_old = DecodeFloat_old(df.regs[1], df.regs[2], order)]

\* ------------------------------------------------------ the environment
\* a calibration trigger bit changes its level on the status device
TrigChange ==
  /\ \E a \in CalAddrs : trig' = [trig EXCEPT ![a] = ~@]
  /\ UNCHANGED <<lvl, stop_event>>

\* a diagnostic level trigger bit changes its level
LvlChange ==
  /\ \E key \in LevelKeys : lvl' = [lvl EXCEPT ![key] = ~@]
  /\ UNCHANGED <<trig, stop_event>>

\* main: KeyboardInterrupt, then stop_event.set()
Shutdown ==
  /\ ~stop_event
  /\ stop_event' = TRUE
  /\ UNCHANGED <<trig, lvl>>

\* one unit of time passes: every running stabilization delay counts down,
\* the time since last_fail and since a connect attempt began counts up
Tick ==
  /\ cal_sess' = [s \in DOMAIN cal_sess |->
        IF cal_sess[s].pc = "wait" /\ cal_sess[s].rem > 0
          THEN [cal_sess[s] EXCEPT !.rem = @ - 1]
          ELSE cal_sess[s]]
  /\ mb_fail_age' = Min(mb_fail_age + 1, Cooldown)
  /\ mb_conn_age' = Min(mb_conn_age + 1, Cooldown)
  /\ rd' = [t \in Readers |->
        IF rd[t].pc = "connect"
          THEN [rd[t] EXCEPT !.el = Min(@ + 1, Cooldown)]
          ELSE rd[t]]
  /\ rc_entry' = [key \in RcKeys |->
        IF rc_entry[key].has
          THEN [rc_entry[key] EXCEPT !.ts_age = Older(@), !.val_age = Older(@)]
          ELSE rc_entry[key]]
  /\ rc' = [t \in Readers |->
        CASE rc[t].pc = "fetch" -> [rc[t] EXCEPT !.el = Older(@)]
          [] rc[t].pc = "store" -> [rc[t] EXCEPT !.el = Older(@), !.va = Older(@)]
          [] OTHER -> rc[t]]
  /\ UNCHANGED <<cal_last, cal_workers, cal_idx>>
  /\ UNCHANGED <<dev_up, mb_lock, mb_client, mb_connected>>

\* SQLWriter.run seen from the producers: q.get takes the oldest request
WriterDequeues ==
  /\ sql_q # <<>>
  /\ sql_q' = Tail(sql_q)

\* ------------------------------------------------------- specifications
Init ==
  /\ trig = [a \in CalAddrs |-> FALSE]
  /\ lvl = [key \in LevelKeys |-> FALSE]
  /\ stop_event = FALSE
  /\ cal_last = [a \in CalAddrs |-> FALSE]
  /\ cal_workers = [a \in CalAddrs |-> 0]
  /\ cal_sess = <<>>
  /\ cal_idx = 0
  /\ cal_edge = [a \in CalAddrs |-> CalDelay(a)]
  /\ lvl_last = [key \in LevelKeys |-> FALSE]
  /\ lvl_sess = <<>>
  /\ lvl_idx = 0
  /\ sql_q = <<>>
  /\ dev_up = TRUE
  /\ mb_lock = [owner |-> 0, count |-> 0]
  /\ mb_client = "none"
  /\ mb_connected = FALSE
  /\ mb_fail_age = Cooldown
  /\ mb_conn_age = Cooldown
  /\ rd = [t \in Readers |->
            [pc |-> "idle", kind |-> "discrete", res |-> "none", el |-> 0]]
  /\ w_pc = "top"
  /\ conn = "none"
  /\ batch = <<>>
  /\ w_x = 0
  /\ txn = <<>>
  /\ commits = <<>>
  /\ batches = <<>>
  /\ sink_up = TRUE
  /\ faults = 0
  /\ glitches = 0
  /\ h_pc = "tick"
  /\ last_good = [i \in 1..ValCount |-> 0]
  /\ h_in = NoInput
  /\ h_rec = NoRecord
  /\ h_ticks = 0
  /\ h_puts = 0
  /\ h_fails = 0
  /\ rc_entry = [key \in RcKeys |-> NoEntry]
  /\ rc = [t \in Readers |-> RcIdle("none", 0)]
  /\ ev = NoEval
  /\ df = NoDecode
  /\ cal_exc = {}

\* the calibration engine: CalMonitor, its CalWorker threads, the triggers
NextCal ==
  \/ (CalMonitorLoop /\ UNCHANGED <<envVars, lvlVars, qVars, mbVars, sqlVars, histVars, rcVars, ownVars>>)
  \/ (CalMonitorPoll /\ UNCHANGED <<envVars, lvlVars, qVars, mbVars, sqlVars, histVars, rcVars, ownVars>>)
  \/ \E s \in DOMAIN cal_sess :
       \/ (CalWorkerWait(s) /\ UNCHANGED <<envVars, lvlVars, qVars, mbVars, sqlVars, histVars, rcVars, ownVars>>)
       \/ (CalWorkerPoll(s) /\ UNCHANGED <<envVars, lvlVars, qVars, mbVars, sqlVars, histVars, rcVars, ownVars>>)
       \/ (CalWorkerCapture(s) /\ UNCHANGED <<envVars, lvlVars, mbVars, sqlVars, histVars, rcVars, ownVars>>)
  \/ (TrigChange /\ UNCHANGED <<calVars, lvlVars, qVars, mbVars, sqlVars, histVars, rcVars, ownVars>>)
  \/ (Shutdown /\ UNCHANGED <<calVars, lvlVars, qVars, mbVars, sqlVars, histVars, rcVars, ownVars>>)
  \/ (Tick /\ UNCHANGED <<envVars, lvlVars, qVars, sqlVars, histVars, ownVars>>)
  \/ (WriterDequeues /\ UNCHANGED <<envVars, calVars, lvlVars, mbVars, sqlVars, histVars, rcVars, ownVars>>)

SpecCal == Init /\ [][NextCal]_vars

\* CalWorker thread number s runs
CalWorkerRuns(s) ==
  /\ s \in DOMAIN cal_sess
  /\ \/ (CalWorkerWait(s) /\ UNCHANGED qVars)
     \/ (CalWorkerPoll(s) /\ UNCHANGED qVars)
     \/ CalWorkerCapture(s)
  /\ UNCHANGED <<envVars, lvlVars, mbVars, sqlVars, histVars, rcVars, ownVars>>

\* time passes
TimePasses ==
  Tick /\ UNCHANGED <<envVars, lvlVars, qVars, sqlVars, histVars, ownVars>>

\* SQLWriter takes requests from the queue
QueueDrains ==
  WriterDequeues /\ UNCHANGED <<envVars, calVars, lvlVars, mbVars, sqlVars, histVars, rcVars, ownVars>>

\* every CalWorker thread runs again and again, also when its put has to
\* wait for room in the queue now and then; time passes; the queue drains
SpecCalFair ==
  /\ SpecCal
  /\ \A s \in 1..MaxCalSessions : SF_vars(CalWorkerRuns(s))
  /\ WF_vars(TimePasses)
  /\ WF_vars(QueueDrains)

\* CalMonitor observes trigger a rising in this step: it reads the bit true
\* and had last observed it false
EdgeObserved ==
  cal_edge' = [a \in CalAddrs |->
                 IF ~cal_last[a] /\ cal_last'[a] THEN 0 ELSE cal_edge[a]]

\* one more unit of time since the rising edges
EdgeAges ==
  cal_edge' = [a \in CalAddrs |-> Min(cal_edge[a] + 1, CalDelay(a))]

\* the calibration capture as in NextCal, with the time since the observed
\* rising edges kept as history
NextCalEdge ==
  \/ (CalMonitorLoop /\ UNCHANGED <<envVars, lvlVars, qVars, mbVars, sqlVars, histVars, rcVars, ownVars>>)
  \/ (CalMonitorPoll /\ EdgeObserved
        /\ UNCHANGED <<envVars, lvlVars, qVars, mbVars, sqlVars, histVars, rcVars, ev, df, cal_exc>>)
  \/ \E s \in DOMAIN cal_sess :
       \/ (CalWorkerWait(s) /\ UNCHANGED <<envVars, lvlVars, qVars, mbVars, sqlVars, histVars, rcVars, ownVars>>)
       \/ (CalWorkerPoll(s) /\ UNCHANGED <<envVars, lvlVars, qVars, mbVars, sqlVars, histVars, rcVars, ownVars>>)
       \/ (CalWorkerCapture(s) /\ UNCHANGED <<envVars, lvlVars, mbVars, sqlVars, histVars, rcVars, ownVars>>)
  \/ (TrigChange /\ UNCHANGED <<calVars, lvlVars, qVars, mbVars, sqlVars, histVars, rcVars, ownVars>>)
  \/ (Shutdown /\ UNCHANGED <<calVars, lvlVars, qVars, mbVars, sqlVars, histVars, rcVars, ownVars>>)
  \/ (Tick /\ EdgeAges
        /\ UNCHANGED <<envVars, lvlVars, qVars, sqlVars, histVars, ev, df, cal_exc>>)
  \/ (WriterDequeues /\ UNCHANGED <<envVars, calVars, lvlVars, mbVars, sqlVars, histVars, rcVars, ownVars>>)

SpecCalEdge == Init /\ [][NextCalEdge]_vars

\* an exception raised in the while loop of CalWorker.run (in
\* read_bit_status, read_measured, evaluate, the put or the logging): run has
\* no try/except, so the exception leaves run and the thread ends
CalWorkerRaises(s) ==
  /\ cal_sess[s].pc \in {"poll", "capture"}
  /\ ~stop_event
  /\ cal_sess' = [cal_sess EXCEPT ![s].pc = "done"]
  /\ cal_exc' = cal_exc \cup {s}
  /\ UNCHANGED <<cal_last, cal_workers, cal_idx>>

\* the calibration capture as in NextCal, with capture ticks that raise
NextCalRaise ==
  \/ (CalMonitorLoop /\ UNCHANGED <<envVars, lvlVars, qVars, mbVars, sqlVars, histVars, rcVars, ownVars>>)
  \/ (CalMonitorPoll /\ UNCHANGED <<envVars, lvlVars, qVars, mbVars, sqlVars, histVars, rcVars, ownVars>>)
  \/ \E s \in DOMAIN cal_sess :
       \/ (CalWorkerWait(s) /\ UNCHANGED <<envVars, lvlVars, qVars, mbVars, sqlVars, histVars, rcVars, ownVars>>)
       \/ (CalWorkerPoll(s) /\ UNCHANGED <<envVars, lvlVars, qVars, mbVars, sqlVars, histVars, rcVars, ownVars>>)
       \/ (CalWorkerCapture(s) /\ UNCHANGED <<envVars, lvlVars, mbVars, sqlVars, histVars, rcVars, ownVars>>)
       \/ (CalWorkerRaises(s)
             /\ UNCHANGED <<envVars, lvlVars, qVars, mbVars, sqlVars, histVars, rcVars, ev, df, cal_edge>>)
  \/ (TrigChange /\ UNCHANGED <<calVars, lvlVars, qVars, mbVars, sqlVars, histVars, rcVars, ownVars>>)
  \/ (Shutdown /\ UNCHANGED <<calVars, lvlVars, qVars, mbVars, sqlVars, histVars, rcVars, ownVars>>)
  \/ (Tick /\ UNCHANGED <<envVars, lvlVars, qVars, sqlVars, histVars, ownVars>>)
  \/ (WriterDequeues /\ UNCHANGED <<envVars, calVars, lvlVars, mbVars, sqlVars, histVars, rcVars, ownVars>>)

SpecCalRaise == Init /\ [][NextCalRaise]_vars

\* the level capture: LevelMonitor, its capture threads, the level triggers
NextLevel ==
  \/ (LevelMonitorLoop /\ UNCHANGED <<envVars, calVars, qVars, mbVars, sqlVars, histVars, rcVars, ownVars>>)
  \/ (LevelMonitorPoll /\ UNCHANGED <<envVars, calVars, qVars, mbVars, sqlVars, histVars, rcVars, ownVars>>)
  \/ \E s \in DOMAIN lvl_sess :
       \/ (LevelWorkerRead(s) /\ UNCHANGED <<envVars, calVars, mbVars, sqlVars, histVars, rcVars, ownVars>>)
       \/ (LevelWorkerAvg(s) /\ UNCHANGED <<envVars, calVars, mbVars, sqlVars, histVars, rcVars, ownVars>>)
       \/ (LevelWorkerTail(s) /\ UNCHANGED <<envVars, calVars, mbVars, sqlVars, histVars, rcVars, ownVars>>)
  \/ (LvlChange /\ UNCHANGED <<calVars, lvlVars, qVars, mbVars, sqlVars, histVars, rcVars, ownVars>>)
  \/ (Shutdown /\ UNCHANGED <<calVars, lvlVars, qVars, mbVars, sqlVars, histVars, rcVars, ownVars>>)
  \/ (WriterDequeues /\ UNCHANGED <<envVars, calVars, lvlVars, mbVars, sqlVars, histVars, rcVars, ownVars>>)

SpecLevel == Init /\ [][NextLevel]_vars

\* one SharedModbus endpoint read by several threads
NextModbus ==
  \/ \E t \in Readers :
       \/ (MbRead(t) /\ UNCHANGED <<envVars, calVars, lvlVars, qVars, sqlVars, histVars, rcVars, ownVars>>)
       \/ (MbAcquire(t) /\ UNCHANGED <<envVars, calVars, lvlVars, qVars, sqlVars, histVars, rcVars, ownVars>>)
       \/ (MbEnsure(t) /\ UNCHANGED <<envVars, calVars, lvlVars, qVars, sqlVars, histVars, rcVars, ownVars>>)
       \/ (MbConnect(t) /\ UNCHANGED <<envVars, calVars, lvlVars, qVars, sqlVars, histVars, rcVars, ownVars>>)
       \/ (MbIo(t) /\ UNCHANGED <<envVars, calVars, lvlVars, qVars, sqlVars, histVars, rcVars, ownVars>>)
  \/ (DevChange /\ UNCHANGED <<envVars, calVars, lvlVars, qVars, sqlVars, histVars, rcVars, ownVars>>)
  \/ (Tick /\ UNCHANGED <<envVars, lvlVars, qVars, sqlVars, histVars, ownVars>>)

SpecModbus == Init /\ [][NextModbus]_vars

\* the results the reads of a Historian tick may give
ValReads == {<<>>} \cup [1..ValCount -> Vals]
MinReads == [1..ValCount -> Mins]

\* the Historian with the devices it reads and the queue
NextHist ==
  \/ (HistTick(Flows, BOOLEAN, ValReads, MinReads)
        /\ UNCHANGED <<envVars, calVars, lvlVars, qVars, mbVars, sqlVars,
                       rcVars, ownVars>>)
  \/ (HistPut /\ UNCHANGED <<envVars, calVars, lvlVars, mbVars, sqlVars, rcVars, ownVars>>)
  \/ (HistSleep
        /\ UNCHANGED <<envVars, calVars, lvlVars, qVars, mbVars, sqlVars,
                       rcVars, ownVars>>)
  \/ (TrigChange /\ UNCHANGED <<calVars, lvlVars, qVars, mbVars, sqlVars, histVars, rcVars, ownVars>>)
  \/ (Shutdown /\ UNCHANGED <<calVars, lvlVars, qVars, mbVars, sqlVars, histVars, rcVars, ownVars>>)
  \/ (WriterDequeues
        /\ UNCHANGED <<envVars, calVars, lvlVars, mbVars, sqlVars, histVars, rcVars, ownVars>>)

SpecHist == Init /\ [][NextHist]_vars

\* the persistence pipeline: the Historian as producer (its devices steady:
\* one flow, one sample, no minimum, no failing status read), SQLWriter,
\* the sink
HistProduces ==
  HistTick({100}, {FALSE}, {[i \in 1..ValCount |-> 10]},
           {[i \in 1..ValCount |-> NoVal]})

NextSQL ==
  \/ (HistProduces
        /\ UNCHANGED <<envVars, calVars, lvlVars, qVars, mbVars, sqlVars,
                       rcVars, ownVars>>)
  \/ (HistPut /\ UNCHANGED <<envVars, calVars, lvlVars, mbVars, sqlVars, rcVars, ownVars>>)
  \/ (HistSleep
        /\ UNCHANGED <<envVars, calVars, lvlVars, qVars, mbVars, sqlVars,
                       rcVars, ownVars>>)
  \/ (WriterLoop /\ UNCHANGED <<envVars, calVars, lvlVars, mbVars, histVars, rcVars, ownVars>>)
  \/ (WriterGet /\ UNCHANGED <<envVars, calVars, lvlVars, mbVars, histVars, rcVars, ownVars>>)
  \/ (WriterDrain /\ UNCHANGED <<envVars, calVars, lvlVars, mbVars, histVars, rcVars, ownVars>>)
  \/ (WriterExecute
        /\ UNCHANGED <<envVars, calVars, lvlVars, mbVars, histVars, rcVars, ownVars>>)
  \/ (WriterCommit
        /\ UNCHANGED <<envVars, calVars, lvlVars, mbVars, histVars, rcVars, ownVars>>)
  \/ (WriterResume
        /\ UNCHANGED <<envVars, calVars, lvlVars, mbVars, histVars, rcVars, ownVars>>)
  \/ (SinkFail /\ UNCHANGED <<envVars, calVars, lvlVars, qVars, mbVars, histVars, rcVars, ownVars>>)
  \/ (SinkRecover
        /\ UNCHANGED <<envVars, calVars, lvlVars, qVars, mbVars, histVars, rcVars, ownVars>>)
  \/ (Shutdown /\ UNCHANGED <<calVars, lvlVars, qVars, mbVars, sqlVars, histVars, rcVars, ownVars>>)

SpecSQL == Init /\ [][NextSQL]_vars

\* the SQLWriter thread keeps running, and a sink that is down comes back
\* (its faults are transient)
WriterRuns ==
  /\ \/ WriterLoop
     \/ WriterGet
     \/ WriterDrain
     \/ WriterExecute
     \/ WriterCommit
     \/ WriterResume
  /\ UNCHANGED <<envVars, calVars, lvlVars, mbVars, histVars, rcVars, ownVars>>

SinkComesBack ==
  /\ SinkRecover
  /\ UNCHANGED <<envVars, calVars, lvlVars, qVars, mbVars, histVars, rcVars, ownVars>>

SpecSQLFair == SpecSQL /\ WF_vars(WriterRuns) /\ WF_vars(SinkComesBack)

\* the Historian thread keeps running whenever it can take a step
HistorianRuns ==
  \/ (HistProduces /\ UNCHANGED qVars)
  \/ HistPut
  \/ (HistSleep /\ UNCHANGED qVars)

\* SQLWriter and the Historian are both scheduled again and again
SpecStopFair ==
  /\ SpecSQL
  /\ WF_vars(WriterRuns)
  /\ WF_vars(HistorianRuns
               /\ UNCHANGED <<envVars, calVars, lvlVars, mbVars, sqlVars, rcVars,
                              ownVars>>)

\* the reference cache with the threads that look a key up
NextRange ==
  \/ \E t \in Readers :
       \/ (RcLookup(t) /\ UNCHANGED <<envVars, calVars, lvlVars, qVars, mbVars, sqlVars,
                                  histVars, ownVars>>)
       \/ (RcFetch(t) /\ UNCHANGED <<envVars, calVars, lvlVars, qVars, mbVars, sqlVars,
                                  histVars, ownVars>>)
       \/ (RcStore(t) /\ UNCHANGED <<envVars, calVars, lvlVars, qVars, mbVars, sqlVars,
                                  histVars, ownVars>>)
  \/ (Tick /\ UNCHANGED <<envVars, lvlVars, qVars, sqlVars, histVars, ownVars>>)

SpecRange == Init /\ [][NextRange]_vars

\* the calls of evaluate
NextEval ==
  \/ (EvalCall /\ UNCHANGED <<envVars, calVars, lvlVars, qVars, mbVars, sqlVars,
                              histVars, rcVars, df, cal_edge, cal_exc>>)
  \/ (EvalAgain /\ UNCHANGED <<envVars, calVars, lvlVars, qVars, mbVars, sqlVars,
                               histVars, rcVars, df, cal_edge, cal_exc>>)

SpecEval == Init /\ [][NextEval]_vars

\* floats written to registers and decoded from them
NextCodec ==
  \/ (CodecWrite /\ UNCHANGED <<envVars, calVars, lvlVars, qVars, mbVars, sqlVars,
                                histVars, rcVars, ev, cal_edge, cal_exc>>)
  \/ (CodecDecode /\ UNCHANGED <<envVars, calVars, lvlVars, qVars, mbVars, sqlVars,
                                 histVars, rcVars, ev, cal_edge, cal_exc>>)

SpecCodec == Init /\ [][NextCodec]_vars

\* the whole service
Next ==
  \/ NextCal \/ NextLevel \/ NextModbus \/ NextHist \/ NextSQL \/ NextRange
  \/ NextEval \/ NextCodec \/ NextCalEdge \/ NextCalRaise

Spec == Init /\ [][Next]_vars

\* ----------------------------------------------------------- the claims
\* the CalWorker sessions of trigger address a that are alive
CalLive(a) == {s \in DOMAIN cal_sess : cal_sess[s].addr = a /\ CalAlive(s)}

\* C1: for every calibration trigger address of a CalMonitor at most one
\* CalWorker capture session is alive at any instant
C1_OneCalSession == \A a \in CalAddrs : Cardinality(CalLive(a)) <= 1

\* a second session of an address has been started after the first ended,
\* and a rising edge is being observed while a session is alive
C1_Witness ==
  \E a \in CalAddrs :
    /\ \E s, t \in DOMAIN cal_sess :
         s < t /\ cal_sess[s].addr = a /\ cal_sess[t].addr = a
    /\ CalLive(a) # {}
    /\ cal_idx \in 1..Len(CalAddrSeq) /\ CalAddrSeq[cal_idx] = a
    /\ trig[a] /\ ~cal_last[a]

\* the level capture sessions of trigger key that are alive
LvlLive(key) == {s \in DOMAIN lvl_sess : lvl_sess[s].key = key /\ LvlAlive(s)}

\* C2: for every diagnostic level trigger at most one level capture session
\* is running at any instant
C2_OneLevelSession == \A key \in LevelKeys : Cardinality(LvlLive(key)) <= 1

\* C3: on one endpoint no two transport reads (with the connect attempt
\* they trigger) are in progress at the same time
C3_ReadsSerialized ==
  /\ Cardinality({t \in Readers : MbInRead(t)}) <= 1
  /\ \A t \in Readers : MbInRead(t) => mb_lock.owner = t

\* one thread is inside its transport read while another one has called a
\* read on the same endpoint and waits for the lock
C3_Witness ==
  \E t, u \in Readers :
    /\ t # u
    /\ rd[t].pc = "io"
    /\ rd[u].pc = "lock"
    /\ ~LockFree(mb_lock, u)

\* ------------------------------------------------- the persistence claims
RECURSIVE Flatten(_)
Flatten(ss) == IF ss = <<>> THEN <<>> ELSE Head(ss) \o Flatten(Tail(ss))
NoDup(q) == \A i, j \in 1..Len(q) : q[i] = q[j] => i = j
Members(q) == {q[i] : i \in 1..Len(q)}

\* the requests the sink holds durably
Committed == Members(Flatten(commits))
\* every request SQLWriter has taken from the queue so far
Taken == Flatten(batches) \o (IF w_pc = "drain" THEN batch ELSE <<>>)
\* the request of Historian tick n
HistReq(n) == Request("hist", n, 0)
\* batch number i was dropped: none of its requests is durable
Dropped(i) == Members(batches[i]) \cap Committed = {}
\* batch number i is durable as a whole
Flushed(i) == Members(batches[i]) \subseteq Committed

\* C4: every request the queue accepted is eventually committed, as long
\* as sink faults are transient and no shutdown is requested
C4_EventuallyCommitted ==
  \A n \in 1..MaxTicks :
    [](HistReq(n) \in Members(sql_q) => <>(HistReq(n) \in Committed \/ stop_event))

\* C5: no request is committed more than once: a request taken from the
\* queue is in one batch only, is never back in the queue, and is never
\* made durable twice
C5_NoDuplicate ==
  /\ NoDup(Flatten(commits))
  /\ NoDup(Taken)
  /\ Members(sql_q) \cap Members(Taken) = {}

\* a batch failed on the sink and was dropped, and a later batch is durable
C5_Witness ==
  \E i, j \in DOMAIN batches :
    i < j /\ faults > 0 /\ Dropped(i) /\ Flushed(j) /\ w_pc = "top"

\* C6: every commit makes exactly one drained batch durable, whole: no
\* batch is committed in part or together with requests of another batch
C6_WholeBatches ==
  \A i \in DOMAIN commits : \E j \in DOMAIN batches : commits[i] = batches[j]

\* the sink can be relied on from here on
SinkSteady == sink_up /\ faults = MaxFaults /\ glitches = MaxGlitches
\* the request of tick n is in the batch SQLWriter is working on
InBatch(n) ==
  w_pc \in {"drain", "exec", "commit"} /\ HistReq(n) \in Members(batch)

\* C7: after a sink error SQLWriter has dropped its connection and waits;
\* it then reconnects, a batch it takes while the sink works is flushed,
\* and only shutdown ends the thread
C7_Recovers ==
  /\ [](w_pc = "stopped" => stop_event)
  /\ [](w_pc = "backoff" => conn = "none" /\ txn = <<>>)
  /\ [](w_pc = "backoff" => <>(conn = "open" \/ stop_event))
  /\ \A n \in 1..MaxTicks :
       [](SinkSteady /\ conn = "open" /\ InBatch(n) => <>(HistReq(n) \in Committed))

\* the sink failed a batch, SQLWriter is connected again and has flushed
\* the next batch
C7_Witness ==
  \E i \in DOMAIN batches :
    /\ i + 1 \in DOMAIN batches
    /\ Dropped(i) /\ Flushed(i + 1)
    /\ faults > 0 /\ glitches = 0 /\ conn = "open" /\ ~stop_event

\* C8: the queue never holds more than its bound, and a producer at its put
\* can go on exactly when the queue has room, whatever the sink's state
C8_PutBlocksOnFullOnly ==
  /\ Len(sql_q) <= QueueMax
  /\ h_pc = "put" => (ENABLED HistPut <=> Len(sql_q) < QueueMax)

\* the Historian is at its put while the sink is down and SQLWriter has no
\* connection: with room in the queue, and with the queue full
C8_Witness ==
  /\ h_pc = "put" /\ ~sink_up /\ conn = "none"
  /\ Len(sql_q) = QueueMax

TickValid(in) ==
  /\ in.vals # <<>>
  /\ \A i \in 1..Len(HistCalSeq) : in.bits[i] # "T"
  /\ \A idx \in 1..ValCount :
       in.mins[idx] = NoVal \/ in.vals[idx] >= in.mins[idx]

\* C10: last_good changes only in a tick that is online, not calibrating
\* and valid, and becomes the sample of that tick; any other tick and any
\* other step leaves it as it is
C10_LastGoodFrame ==
  [][IF h_ticks' = h_ticks + 1
       THEN IF TickValid(h_in') THEN last_good' = h_in'.vals
                                ELSE last_good' = last_good
       ELSE last_good' = last_good]_vars

\* a sample was adopted, and the tick after it read a value below its
\* minimum and left last_good alone
C10_Witness ==
  /\ h_pc = "put"
  /\ h_in.vals # <<>> /\ ~TickValid(h_in)
  /\ \A i \in 1..Len(HistCalSeq) : h_in.bits[i] # "T"
  /\ last_good \in [1..ValCount -> Vals]
  /\ last_good # h_in.vals

\* the tick that has just read: its analyzer read failed
TickOffline(in) == in.vals = <<>>

\* C11: every tick whose analyzer read fails builds a record with mode
\* OFFLINE and the values of last_good, and leaves last_good as it was; so
\* over any run of such ticks last_good keeps the value it had before
C11_OfflineKeepsLastGood ==
  [][(h_ticks' = h_ticks + 1 /\ TickOffline(h_in'))
       => /\ h_rec'.mode = "ANALYZER OFFLINE"
          /\ h_rec'.vals = last_good
          /\ last_good' = last_good
          /\ h_pc' = "put"]_vars

\* the second failing tick in a row, after a sample had been adopted
C11_Witness ==
  /\ h_fails >= 2 /\ h_pc = "sleep" /\ h_puts = 1
  /\ h_rec.mode = "ANALYZER OFFLINE"
  /\ last_good \in [1..ValCount -> Vals]
  /\ h_rec.vals = last_good

\* the calibration trigger bits the tick read active
ReadActive(in) == {i \in 1..Len(HistCalSeq) : in.bits[i] = "T"}

\* C12: a tick on which a calibration trigger reads active writes a record
\* with the name of that calibration as mode, the calibration flag set and
\* the values of last_good
C12_CalibrationFreezes ==
  (h_pc \in {"put", "sleep"} /\ ReadActive(h_in) # {})
    => /\ \E i \in ReadActive(h_in) : h_rec.mode = CalName(HistCalSeq[i])
       /\ h_rec.is_cal = 1
       /\ h_rec.vals = last_good

\* ------------------------------------------------- the CalWorker claims
\* session s is at its first read of the trigger, the stabilization delay
\* over: it has not been in the for loop over the tags
FirstPoll(s) == cal_sess[s].pc = "poll" /\ cal_sess[s].k = 0
\* this step enqueues a record of calibration session s
CalPutBy(s) ==
  \E item \in {Request("cal", s, k) : k \in 1..CalTags(cal_sess[s].addr)} :
    sql_q' = Append(sql_q, item)

\* C13: a session enqueues nothing during its stabilization delay; when its
\* first read of the trigger, the delay over, finds the trigger false, the
\* session ends there, with nothing enqueued; an ended session stays ended
\* and enqueues nothing
C13_ShortTriggerNoSamples ==
  [][\A s \in DOMAIN cal_sess :
       /\ cal_sess[s].pc = "wait" => ~CalPutBy(s)
       /\ (FirstPoll(s) /\ ~trig[cal_sess[s].addr] /\ cal_sess'[s] # cal_sess[s])
            => (cal_sess'[s].pc = "done" /\ cal_sess'[s].k = 0 /\ ~CalPutBy(s))
       /\ cal_sess[s].pc = "done"
            => (cal_sess'[s] = cal_sess[s] /\ ~CalPutBy(s))]_vars

\* a session has ended at its first read of the trigger, which had gone
\* false again, with no shutdown
C13_Witness ==
  \E s \in DOMAIN cal_sess :
    /\ cal_sess[s].pc = "done" /\ cal_sess[s].k = 0
    /\ ~trig[cal_sess[s].addr] /\ ~stop_event

\* CalWorker thread s has returned from run
CalEnded(s) == s \in DOMAIN cal_sess /\ cal_sess[s].pc = "done"
\* the trigger of session s is false
CalTrigLow(s) == s \in DOMAIN cal_sess /\ ~trig[cal_sess[s].addr]

\* C14: a capture session ends also when its trigger stays true and no
\* shutdown is requested: unless the trigger goes false or shutdown comes,
\* the session has ended at some time (its hard expiry)
C14_StuckTriggerExpires ==
  \A s \in 1..MaxCalSessions :
    [](s \in DOMAIN cal_sess => <>(CalEnded(s) \/ CalTrigLow(s) \/ stop_event))

\* CalMonitor observes an activation of trigger a in this step: it read the
\* bit true and had last observed it false
RisingObserved(a) == ~cal_last[a] /\ cal_last'[a]
\* this step starts a CalWorker for trigger a
SessionStarted(a) ==
  /\ cal_sess' = Append(cal_sess, NewCalWorker(a))
  /\ cal_workers'[a] = Len(cal_sess')
\* the CalWorker of trigger a is running
LiveWorker(a) == cal_workers[a] # 0 /\ CalAlive(cal_workers[a])

\* C15: every activation of a trigger that CalMonitor observes starts one
\* CalWorker session of its own, and nothing else starts a session
C15_EveryActivationOneSession ==
  [][/\ \A a \in CalAddrs : RisingObserved(a) => SessionStarted(a)
     /\ Len(cal_sess') # Len(cal_sess)
          => \E a \in CalAddrs : RisingObserved(a) /\ SessionStarted(a)]_vars

\* C15, amended: an activation that CalMonitor observes starts one CalWorker
\* session exactly when no CalWorker of that trigger is running; observed
\* while one is running it starts none and leaves the running one as it is;
\* nothing else starts a session
C15_ActivationCoalesced ==
  [][/\ \A a \in CalAddrs :
          RisingObserved(a) =>
            IF LiveWorker(a) THEN cal_sess' = cal_sess /\ cal_workers' = cal_workers
                             ELSE SessionStarted(a)
     /\ Len(cal_sess') # Len(cal_sess)
          => \E a \in CalAddrs :
               RisingObserved(a) /\ ~LiveWorker(a) /\ SessionStarted(a)]_vars

\* a second activation of a trigger has its own session, started after the
\* session of the first had ended
C15_Witness ==
  \E s1, s2 \in DOMAIN cal_sess :
    /\ s1 < s2 /\ cal_sess[s1].addr = cal_sess[s2].addr
    /\ cal_sess[s1].pc = "done" /\ cal_sess[s2].pc = "wait"
    /\ cal_workers[cal_sess[s2].addr] = s2
    /\ cal_last[cal_sess[s2].addr]

\* ----------------------------------------------- the SharedModbus claims
\* this step begins a connect attempt: _ensure calls _connect
ConnectAttempt == \E t \in Readers : rd[t].pc = "ensure" /\ rd'[t].pc = "connect"

\* C16: after a connect attempt has failed, no connect attempt is made
\* until the cool-down window is over: the reads in between return at once
C16_NoConnectInCooldown ==
  [][ConnectAttempt => mb_conn_age >= Cooldown]_vars

\* the endpoint is in BACKOFF: the cool-down since last_fail is not over
InBackoff == mb_fail_age < Cooldown
\* thread t returns from its transport read in this step
IoReturns(t) == rd[t].pc = "io" /\ rd'[t].pc = "idle"

\* C17: no read succeeds while the endpoint is in BACKOFF
C17_NoSuccessInBackoff ==
  [][\A t \in Readers : (IoReturns(t) /\ rd'[t].res = "ok") => ~InBackoff]_vars

\* C18: a transport read that ends with an exception (the step that sets
\* last_fail) returns the failure value and leaves the endpoint not
\* connected, so that the next read has to connect
C18_ExceptionInvalidates ==
  [][\A t \in Readers :
       (IoReturns(t) /\ mb_fail_age # 0 /\ mb_fail_age' = 0)
         => (rd'[t].res = "N" /\ ~(mb_client' = "obj" /\ mb_connected'))]_vars

\* C19: a read ends in a return, with the values or the failure value, and
\* with the lock released; the lock is held only by a thread inside a read
C19_ReadsReturn ==
  /\ \A t \in Readers :
       /\ rd[t].pc \in {"idle", "lock", "ensure", "connect", "io"}
       /\ rd[t].pc = "idle" => (rd[t].res \in {"none", "ok", "N"} /\ mb_lock.owner # t)
       /\ rd[t].pc = "lock" => mb_lock.owner # t
       /\ MbInRead(t) => (mb_lock.owner = t /\ mb_lock.count = 1)
  /\ mb_lock.owner = 0 <=> mb_lock.count = 0

\* reads have returned the failure value after a failed connect, and after
\* an exception of the transport read, the lock free again
C19_Witness ==
  \E t, u \in Readers :
    /\ t # u
    /\ rd[t].pc = "idle" /\ rd[t].res = "N"
    /\ rd[u].pc = "idle" /\ rd[u].res = "N"
    /\ mb_lock.owner = 0
    /\ mb_fail_age = 0 /\ mb_conn_age > 0

\* --------------------------------------------------- the RangeCache claim
\* C20: a value that get_float_holding returns from the cache was read from
\* the device no longer than the ttl before the lookup; the value of an
\* entry is never older than its timestamp says; and a lookup that finds
\* no fresh entry returns what it read itself, or None when its read fails
C20_NeverStale ==
  /\ \A key \in RcKeys :
       rc_entry[key].has => rc_entry[key].val_age <= rc_entry[key].ts_age
  /\ \A t \in Readers :
       /\ rc[t].ret = "hit" => rc[t].age <= Ttl
       /\ rc[t].ret \in {"none", "hit", "fetched", "N"}
       /\ rc[t].pc = "store" => rc[t].va <= rc[t].el

\* one lookup got a value from the cache that was not new any more; later
\* the entry is past the ttl and a lookup whose read failed returned None
C20_Witness ==
  \E t, u \in Readers :
    /\ rc[t].pc = "idle" /\ rc[t].ret = "hit" /\ rc[t].age > 0
    /\ rc[u].pc = "idle" /\ rc[u].ret = "N"
    /\ \E key \in RcKeys : rc_entry[key].has /\ rc_entry[key].ts_age > Ttl

\* C21: a lookup whose read of the device fails returns None and leaves
\* self.cache as it was: no key gets an entry, no entry of this key or of
\* another key is overwritten or removed
C21_FailedReadKeepsCache ==
  [][\A t \in Readers :
       (rc[t].pc = "fetch" /\ rc'[t].pc = "idle")
         => (rc'[t].ret = "N" /\ rc_entry' = rc_entry)]_vars

\* a lookup of a key with an expired entry returned None after its read
\* failed: the expired entry is still there, so is the fresh entry of the
\* other key
C21_Witness ==
  \E t \in Readers : \E key, other \in RcKeys :
    /\ rc[t].pc = "idle" /\ rc[t].ret = "N"
    /\ rc_entry[key].has /\ rc_entry[key].ts_age > Ttl
    /\ rc_entry[other].has /\ rc_entry[other].ts_age <= Ttl

\* ------------------------------------------------- the claims on evaluate
\* the references the last call of evaluate worked with
EvRefs == IF ev.cal_name = "N2O ZERO" THEN ZeroRefs
                                       ELSE ReadExpectedMinMax(ev.reads)
EvAvailable ==
  ev.cal_name = "N2O ZERO" \/ \A i \in 1..3 : ev.reads[i] # None

\* C22: for a calibration other than the zero calibration evaluate returns
\* status READ ERROR with expected, error and accuracy None whenever one of
\* the lookups of expected, min and max returned None; it ends with a
\* result in every case
C22_MissingRefReadError ==
  ev.n > 0 =>
    /\ ev.out.status \in {"CAL OK", "OUT OF CONTROL", "READ ERROR"}
    /\ ~EvAvailable => ev.out = ReadError

\* expected was read, min was not: READ ERROR
C22_Witness ==
  /\ ev.n > 0 /\ ev.cal_name # "N2O ZERO"
  /\ ev.reads[1] # None /\ ev.reads[2] = None /\ ev.reads[3] # None
  /\ ev.out.status = "READ ERROR" /\ ev.out.expected = None

\* C23: with all three references there, error is val - expected and the
\* status is CAL OK exactly when min <= val <= max, else OUT OF CONTROL;
\* the zero calibration takes expected 0 and the band -0.2 .. 0.2 and
\* makes no lookup in the cache
C23_ErrorAndStatus ==
  (ev.n > 0 /\ EvAvailable) =>
    /\ ev.out.expected = EvRefs.exp
    /\ ev.out.error = Some(ev.val - EvRefs.exp[1])
    /\ ev.out.status =
         IF EvRefs.mn[1] <= ev.val /\ ev.val <= EvRefs.mx[1]
           THEN "CAL OK" ELSE "OUT OF CONTROL"
    /\ ev.cal_name = "N2O ZERO" =>
         /\ ev.reads = <<>>
         /\ ev.out.expected = Some(0)
         /\ ev.out.status = "CAL OK" <=> (0 - 2 <= ev.val /\ ev.val <= 2)

\* a span sample that sits exactly on its min limit is CAL OK
C23_Witness ==
  /\ ev.n > 0 /\ ev.cal_name # "N2O ZERO"
  /\ EvAvailable
  /\ ev.reads[2] = Some(ev.val) /\ ev.reads[3] # Some(ev.val)
  /\ ev.out.status = "CAL OK" /\ ev.out.error # Some(0)

\* C24: evaluate never divides by zero: with expected 0 the accuracy is
\* |val| * factor, with expected not 0 it is |val - expected| / expected *
\* factor
C24_NoDivisionByZero ==
  (ev.n > 0 /\ EvAvailable) =>
    /\ ev.out.accuracy[2] # 0
    /\ ev.out.accuracy =
         IF EvRefs.exp = Some(0)
           THEN <<Abs(ev.val) * Factor(ev.tag), 1>>
           ELSE <<Abs(ev.val - EvRefs.exp[1]) * Factor(ev.tag), EvRefs.exp[1]>>

\* expected was read as 0 from the range device for a sample that is not 0
C24_Witness ==
  /\ ev.n > 0 /\ ev.cal_name # "N2O ZERO"
  /\ EvAvailable /\ ev.reads[1] = Some(0) /\ ev.val # 0
  /\ ev.out.accuracy = <<Abs(ev.val) * Factor(ev.tag), 1>>

\* C25: evaluate called twice with the same tag, val, cal_name and range
\* map gives the same result both times, whatever happened to the cache
\* and the range device in between
C25_SameArgsSameResult == ev.n = 2 => ev.out = ev.prev

\* ------------------------------------------------ the plant status claim
\* C26: the plant status of a Historian record is PLANT STOP when the flow
\* of its tick is below FLOW_STOP_THRESHOLD and PLANT RUNNING when it is at
\* or above it, whatever the analyzer mode of the tick
C26_PlantStatusFromFlow ==
  /\ h_rec.flow < FLOW_STOP_THRESHOLD => h_rec.pstat = "PLANT STOP"
  /\ h_rec.flow >= FLOW_STOP_THRESHOLD => h_rec.pstat = "PLANT RUNNING"

\* a tick with the analyzer offline and a flow of exactly the threshold:
\* its record says PLANT RUNNING
C26_Witness ==
  /\ h_pc = "put"
  /\ h_rec.mode = "ANALYZER OFFLINE"
  /\ h_rec.flow = FLOW_STOP_THRESHOLD
  /\ h_rec.pstat = "PLANT RUNNING"

\* --------------------------------------------- the claims on decode_float
\* C27: a float laid out in two registers high word first ("ABCD") or low
\* word first ("CDAB") and decoded by decode_float with the same order is
\* the float that was laid out, and the four bytes decode_float puts
\* together are the four bytes of that float in their order
C27_RoundTrip ==
  (df.pc = "done" /\ df.rorder = df.worder) =>
    /\ df.out = df.v
    /\ df.data = PackF(df.v)

\* a float whose two words differ went through low word first
C27_Witness ==
  /\ df.pc = "done" /\ df.worder = "CDAB" /\ df.rorder = "CDAB"
  /\ df.regs[1] # df.regs[2]
  /\ df.out = df.v

\* C28: decode_float called with an order it does not know returns what it
\* returns for "ABCD" and raises nothing, in each program that defines it
C28_UnknownOrderIsABCD ==
  (df.pc = "done" /\ df.rorder \notin KnownOrders) =>
    LET abcd == DecodeFloat(df.regs[1], df.regs[2], "ABCD") IN
    /\ df.out = abcd
    /\ df.out_combined = abcd
    /\ df.out_old = abcd

\* ------------------------------------------- the CalWorker session claims
\* C29: a CalWorker session ends only because its trigger bit was read
\* false or because shutdown was requested (the code has no expiry); a
\* failed read of the trigger bit does not end it
C29_EndsOnlyOnFalseOrShutdown ==
  [][\A s \in 1..Len(cal_sess) :
       (cal_sess[s].pc = "poll" /\ cal_sess'[s].pc = "done")
         => (stop_event \/ ~trig[cal_sess[s].addr])]_vars

\* C30: a sample of a calibration session is enqueued only when the
\* stabilization delay of its trigger has elapsed since CalMonitor last
\* observed that trigger rising, also when that rising edge started no
\* session because the CalWorker of the activation before was still alive
C30_NoSampleBeforeDelay ==
  [][\A s \in 1..Len(cal_sess) :
       CalPutBy(s)
         => cal_edge[cal_sess[s].addr] >= CalDelay(cal_sess[s].addr)]_vars

\* ------------------------------------------ the level capture claims
\* this step enqueues a sample record ("Val i") of level session s
LvlSamplePutBy(s) ==
  \E i \in 1..LevelReads : sql_q' = Append(sql_q, Request("level", s, i))

\* C31: a level capture session enqueues a sample only in a step at which
\* its level trigger is active: once the trigger has fallen it records no
\* further sample
C31_SampleOnlyWhileActive ==
  [][\A s \in 1..Len(lvl_sess) :
       LvlSamplePutBy(s) => lvl[lvl_sess[s].key]]_vars

\* C32: a level capture session that has run to its end has enqueued one
\* sample record for each of the three delays and then the "Avg", the
\* "Actual", the "Error" and the "% Error" record, whichever of its reads
\* succeeded
C32_SevenRecords ==
  \A s \in 1..Len(lvl_sess) :
    lvl_sess[s].pc = "done"
      => (lvl_sess[s].nvals = LevelReads /\ lvl_sess[s].j = 4)

\* ------------------------------------- more claims on the Historian tick
\* the tick that has just read is online and no calibration bit was read
\* active
TickOnlineIdle(in) == in.vals # <<>> /\ ReadActive(in) = {}
\* some value of the tick is below its minimum
TickBelowMin(in) ==
  \E idx \in 1..ValCount :
    in.mins[idx] # NoVal /\ in.vals[idx] < in.mins[idx]

\* C33: an online, non-calibrating tick on which some value is below its
\* minimum builds a record with mode INVALID and the values just read, and
\* leaves last_good as it was
C33_InvalidKeepsRaw ==
  [][(h_ticks' = h_ticks + 1 /\ TickOnlineIdle(h_in') /\ TickBelowMin(h_in'))
       => /\ h_rec'.mode = "ANALYZER INVALID"
          /\ h_rec'.vals = h_in'.vals
          /\ h_rec'.is_cal = 0
          /\ last_good' = last_good
          /\ h_pc' = "put"]_vars

\* the record of an invalid tick carries values that differ from the
\* sample adopted before
C33_Witness ==
  /\ h_pc = "sleep" /\ h_puts = 1
  /\ h_rec.mode = "ANALYZER INVALID"
  /\ last_good \in [1..ValCount -> Vals]
  /\ h_rec.vals # last_good

\* C39: a minimum that cannot be read does not make a value invalid: an
\* online, non-calibrating tick on which no value is below a minimum that
\* was read, so also one on which no minimum was read at all, has mode
\* IDLE, and its sample becomes last_good
C39_MinFailsOpen ==
  [][(h_ticks' = h_ticks + 1 /\ TickOnlineIdle(h_in') /\ ~TickBelowMin(h_in'))
       => /\ h_rec'.mode = "ANALYZER IDLE"
          /\ h_rec'.vals = h_in'.vals
          /\ last_good' = h_in'.vals]_vars

\* no minimum could be read; the sample replaced the one adopted before
C39_Witness ==
  /\ h_pc = "put" /\ h_ticks >= 2
  /\ TickOnlineIdle(h_in)
  /\ \A idx \in 1..ValCount : h_in.mins[idx] = NoVal
  /\ h_rec.mode = "ANALYZER IDLE"
  /\ last_good = h_in.vals

\* C40: a tick whose read of the flow fails builds the record a tick that
\* reads a flow of 0.0 builds: flow 0.0 and PLANT STOP
C40_FlowFailureIsZero ==
  (h_pc \in {"put", "sleep"} /\ h_in.flow \in {NoVal, 0})
    => (h_rec.flow = 0 /\ h_rec.pstat = "PLANT STOP")

\* the flow read failed on a tick whose analyzer read succeeded
C40_Witness ==
  /\ h_pc = "put" /\ h_in.flow = NoVal /\ h_in.vals # <<>>
  /\ h_rec.flow = 0 /\ h_rec.pstat = "PLANT STOP"

\* ------------------------------------------------- the shutdown claims
\* C34: once shutdown is requested every worker terminates, whatever the
\* sink and the queue are like: here SQLWriter and the Historian
C34_WorkersTerminate ==
  stop_event ~> (w_pc = "stopped" /\ h_pc = "stopped")

\* C35: SQLWriter drains the queue on shutdown: with a sink that never
\* failed, the queue is empty at the step at which SQLWriter stops
C35_DrainsOnShutdown ==
  [][(w_pc # "stopped" /\ w_pc' = "stopped" /\ faults = 0 /\ glitches = 0)
       => sql_q = <<>>]_vars

\* C36: an exception raised inside a capture tick of a CalWorker does not
\* end that worker
C36_FailureDoesNotEndWorker ==
  [][\A s \in DOMAIN cal_sess :
       (s \in cal_exc' /\ s \notin cal_exc) => cal_sess'[s].pc # "done"]_vars

\* thread t reads the device for its key in this step
RcLiveRead(t) == rc[t].pc = "fetch" /\ rc'[t].pc # "fetch"

\* C37: a live read of a key reaches the device only when no other thread
\* has read the device for the same missing entry, and not while the key
\* has an entry whose value was fetched within the freshness window
C37_SingleLiveRead ==
  [][\A t \in Readers :
       RcLiveRead(t) =>
         /\ \A u \in Readers \ {t} :
              ~(rc[u].pc = "store" /\ rc[u].key = rc[t].key)
         /\ ~(rc_entry[rc[t].key].has
                /\ RcFresh(rc_entry[rc[t].key].val_age))]_vars

\* SQLWriter takes a request from the queue in this step
WriterTakes == sql_q # <<>> /\ sql_q' = Tail(sql_q)

\* SQLWriter leaves the execution of its batch in this step
WriterLeavesBatch ==
  w_pc \in {"exec", "commit"} /\ w_pc' \notin {"exec", "commit"}

\* C38: SQLWriter takes a request from the queue only while it holds a
\* connection, and it leaves a batch either by committing every request of
\* it or through a handler of a failed execute or commit
C38_DequeueNeedsConnection ==
  [][/\ WriterTakes => conn # "none"
     /\ WriterLeavesBatch =>
          \/ w_pc' \in {"backoff", "pause"}
          \/ /\ commits' = Append(commits, txn)
             /\ \A i \in 1..Len(batch) :
                  \E j \in 1..Len(txn) : txn[j] = batch[i]]_vars

\* the sink refuses connections, SQLWriter holds none and backs off after a
\* failed batch, and a request waits in the queue
C38_Witness ==
  /\ ~sink_up
  /\ conn = "none"
  /\ w_pc = "backoff"
  /\ batches # <<>>
  /\ commits = <<>>
  /\ sql_q # <<>>
====
